---- MODULE Spec2Model ----
(***************************************************************************)
(* Model of server/node.go: the start-up of one Node (initStores,          *)
(* bootstrapCluster, validateStores, connectGossip, initNodeID), the       *)
(* asynchronous bootstrapStores task, the two periodic workers and         *)
(* executeCmd.  The storage engines, the gossip instance, the stopper and  *)
(* the KV counters are the collaborators node.go calls; each is modelled   *)
(* by the outcomes its callers in node.go distinguish.                     *)
(***************************************************************************)
EXTENDS Integers, Sequences, FiniteSets

\* ---------------------------------------------------------------- bounds
MaxEngines == 2
MaxPeerAllocs == 1
MaxClock == 1
MaxID == 2
MaxGossipTicks == 1
MaxPublishTicks == 2

\* ------------------------------------------------------------ value sets
ClusterIDs == {"c1", "c2"}
\* What Resolver.GetAddress yields: the node's own address, another
\* address, or no UnresolvedAddr at all (error / other address type).
SelfAddr == "self"
ResolverLists ==
    {<<>>, <<"self">>, <<"peer">>, <<"noaddr">>,
     <<"self", "self">>, <<"self", "peer">>}

BlankIdent == [ClusterID |-> "", NodeID |-> 0, StoreID |-> 0]

\* The idents an engine can hold when the process starts: none (blank
\* engine), a complete ident, or a persisted but incomplete ident.
CompleteIdents ==
    {[ClusterID |-> "c1", NodeID |-> 1, StoreID |-> 0],
     [ClusterID |-> "c2", NodeID |-> 1, StoreID |-> 0],
     [ClusterID |-> "c1", NodeID |-> 2, StoreID |-> 0]}
IncompleteIdents ==
    {[ClusterID |-> "", NodeID |-> 1, StoreID |-> 0],
     [ClusterID |-> "c1", NodeID |-> 0, StoreID |-> 0]}

\* An engine: boot = a StoreIdent record is persisted in it; Ident = that
\* record; seeded = it holds the initial key/value seed (first range);
\* started = the Store object currently wrapping it has been started.
EngineAt(k, boot, ident) ==
    [boot |-> boot,
     Ident |-> IF boot THEN [ident EXCEPT !.StoreID = k] ELSE BlankIdent,
     seeded |-> FALSE,
     started |-> FALSE]

EngineListsOver(idents) ==
    UNION {
      { [k \in 1..n |-> EngineAt(k, f[k] # BlankIdent, f[k])] :
        f \in [1..n -> idents] }
      : n \in 0..MaxEngines }

EngineLists ==
    EngineListsOver({BlankIdent} \cup CompleteIdents \cup IncompleteIdents)

\* The inputs of the whole-lifetime specification: blank engines and
\* engines of either cluster, started alone or with a peer to join.
NodeEngineLists ==
    EngineListsOver({BlankIdent} \cup {c \in CompleteIdents : c.NodeID = 1})
NodeResolverLists == {<<>>, <<"peer">>}

\* The counters of the cluster this node's DB reaches when it joins one.
InitDB == [node |-> 2, store |-> MaxEngines]
FreshDB == [node |-> 0, store |-> 0]
\* The same cluster, and one whose node-ID counter stands one below zero
\* (db.Inc takes any increment), so that the next allocation yields the
\* ID 0 that initNodeID checks for.
NodeDBs == {InitDB, [InitDB EXCEPT !.node = -1]}

VARIABLES
    engines,          \* the engines passed to Node.start, in order
    resolvers,        \* Gossip.GetResolvers()
    gossipClusterID,  \* Gossip.GetInfo(KeyClusterID)
    gossipNodeID,     \* Gossip.SetNodeID argument (0 = never called)
    gossipDesc,       \* NodeID of the descriptor last gossiped (0 = none)
    gossipStorage,    \* Gossip.SetStorage(n.stores) done
    db,               \* the NodeIDGenerator / StoreIDGenerator counters
    allocs,           \* history: every increment of a counter, in order
    ClusterID,        \* n.ClusterID
    NodeID,           \* n.Descriptor.NodeID
    stores,           \* n.stores: indexes of the engines registered
    pc,               \* position of Node.start
    i,                \* loop index of initStores / bootstrapCluster
    bootstraps,       \* initStores' list of un-bootstrapped stores
    visited,          \* stores validateStores' VisitStores has visited
    firstVisited,     \* history: first store of the current validateStores
    err,              \* error returned by the last call that returned
    fatal,            \* reason of the log.Fatal / panic that halted; "" = none
    initCalls,        \* history: number of initStores calls begun
    bcCalls,          \* history: number of bootstrapCluster calls begun
    bcClusterID,      \* bootstrapCluster's clusterID
    bpc,              \* position of the async bootstrapStores task
    blist,            \* the list handed to bootstrapStores
    bj,               \* bootstrapStores' position in the list (1-based)
    sIdent,           \* bootstrapStores' sIdent
    stopped,          \* the stopper's shutdown signal has fired
    gpc,              \* gossip worker
    ppc,              \* publish-status worker
    gossiped,         \* engines whose store has been asked to GossipStore
    published,        \* outcomes of the worker's publishStoreStatuses calls
    gossipRuns,       \* number of gossipStores runs of the gossip worker
    broadcast,        \* stores visited by its latest gossipStores run
    registered,       \* Node.Batch registered with the RPC server
    cmd,              \* outcome of the last executeCmd
    peerAllocs,       \* number of store-ID allocations done by other nodes
    lastCall          \* the last direct call of initNodeID: argument, NodeID
                      \* and gossip state before it

vars == <<engines, resolvers, gossipClusterID, gossipNodeID, gossipDesc,
          gossipStorage, db, allocs, ClusterID, NodeID, stores, pc, i,
          bootstraps, visited, firstVisited, err, fatal, initCalls, bcCalls,
          bcClusterID, bpc, blist, bj, sIdent, stopped, gpc, ppc, gossiped,
          published, gossipRuns, broadcast, registered, cmd, peerAllocs,
          lastCall>>

gossipVars == <<gossipNodeID, gossipDesc>>
workerVars == <<bpc, blist, bj, sIdent>>
loopVars == <<gpc, ppc, gossiped, published, gossipRuns, broadcast>>
rpcVars == <<registered, cmd>>

N == Len(engines)
NoCall == [made |-> FALSE, id |-> 0, o |-> 0, gossip |-> <<0, 0>>]
\* What is known of an executeCmd call.  Inputs: trace, the request's
\* trace context (absent "none", joinable "ok", not joinable "bad");
\* stopping, the stopper was stopping at the call; pErr and brErr,
\* Stores.Send reported an error, and returned a response with Error set
\* (both FALSE when it was not called).  Effects:
\* sent, Stores.Send was called; events, the calls made in order; feed,
\* the error given to CallComplete ("none" when not called) and duration
\* its elapsed time; finish, what the span's recording callback did;
\* result, how executeCmd ended; brError, the returned response's Error.
NoCmd == [trace |-> "none", stopping |-> FALSE, pErr |-> FALSE,
          brErr |-> FALSE, sent |-> FALSE, events |-> <<>>,
          feed |-> "none", duration |-> 0, brError |-> FALSE,
          finish |-> "none", result |-> "none"]

InitWith(engineLists, resolverLists, dbs) ==
    /\ engines \in engineLists
    /\ resolvers \in resolverLists
    /\ gossipClusterID \in ClusterIDs
    /\ gossipNodeID = 0
    /\ gossipDesc = 0
    /\ gossipStorage = FALSE
    /\ db \in dbs
    /\ allocs = <<>>
    /\ ClusterID = ""
    /\ NodeID = 0
    /\ stores = {}
    /\ pc = "start"
    /\ i = 0
    /\ bootstraps = <<>>
    /\ visited = {}
    /\ firstVisited = 0
    /\ err = ""
    /\ fatal = ""
    /\ initCalls = 0
    /\ bcCalls = 0
    /\ bcClusterID = ""
    /\ bpc = "idle"
    /\ blist = <<>>
    /\ bj = 0
    /\ sIdent = BlankIdent
    /\ stopped = FALSE
    /\ gpc = "off"
    /\ ppc = "off"
    /\ gossiped = {}
    /\ published = <<>>
    /\ gossipRuns = 0
    /\ broadcast = {}
    /\ registered = FALSE
    /\ cmd = NoCmd
    /\ peerAllocs = 0
    /\ lastCall = NoCall

Init == InitWith(EngineLists, ResolverLists, {InitDB})
NodeInit == InitWith(NodeEngineLists, NodeResolverLists, NodeDBs)

Running == fatal = ""

\* ------------------------------------------------------- pure functions

\* db.Inc(key, inc): the counter after the increment.
Inc(counter, inc) == counter + inc

\* allocateNodeID: the ID derived from the post-increment value r.
allocateNodeID(r) == r

\* Mutant: the range is taken to start one ID early.
allocateStoreIDs_OffByOne(r, inc) == r - inc

\* allocateStoreIDs: the first ID of the range, from the post-increment
\* value r of the store-ID counter.
allocateStoreIDs(r, inc) == r - inc + 1

AllocRec(gen, by, inc, first) ==
    [gen |-> gen, by |-> by, inc |-> inc, first |-> first]

\* Mutant: every resolver being the node itself counts as joining self.
bootstrapCheck_AllSelf(storeCount, res) ==
    IF storeCount = 0
    THEN IF Len(res) = 0 THEN "needsBootstrap"
         ELSE IF \A x \in 1..Len(res) : res[x] = SelfAddr
              THEN "cannotJoinSelf" ELSE ""
    ELSE ""

\* Mutant: the resolvers are inspected whatever the store count.
bootstrapCheck_NoCountGuard(storeCount, res) ==
    CASE Len(res) = 0 -> "needsBootstrap"
      [] Len(res) = 1 -> IF res[1] = SelfAddr THEN "cannotJoinSelf" ELSE ""
      [] OTHER -> ""

\* initStores' check after the engine loop: the error it returns, "" when
\* it goes on to validateStores.
bootstrapCheck(storeCount, res) ==
    IF storeCount = 0
    THEN CASE Len(res) = 0 -> "needsBootstrap"
           [] Len(res) = 1 ->
                IF res[1] = SelfAddr THEN "cannotJoinSelf" ELSE ""
           [] OTHER -> ""
    ELSE ""

\* Mutant: only the ClusterID is looked at.
unidentified_ClusterOnly(ident) == ident.ClusterID = ""

\* initStores' classification of a store that started without error.
unidentified(ident) == ident.ClusterID = "" \/ ident.NodeID = 0

\* Mutant: the visitor compares cluster IDs only.
validateStore_NoNodeCheck(cid, nid, ident) ==
    IF cid = "" THEN "init"
    ELSE IF cid # ident.ClusterID THEN "clusterMismatch"
    ELSE "ok"

\* validateStores' visitor on one store: what it does with the store's
\* ident given the node's current ClusterID and NodeID.
validateStore(cid, nid, ident) ==
    IF cid = "" THEN "init"
    ELSE IF cid # ident.ClusterID THEN "clusterMismatch"
    ELSE IF nid # ident.NodeID THEN "nodeMismatch"
    ELSE "ok"

\* Mutant: the gossiped cluster ID is adopted whatever the node holds.
connectGossipResult_Adopt(cid, gossipCID) ==
    [ClusterID |-> gossipCID, fatal |-> ""]

\* Mutant: the node's own cluster ID is kept without comparing it.
connectGossipResult_NoCheck(cid, gossipCID) ==
    IF cid = "" THEN [ClusterID |-> gossipCID, fatal |-> ""]
    ELSE [ClusterID |-> cid, fatal |-> ""]

\* connectGossip once connected and the cluster ID has been read.
connectGossipResult(cid, gossipCID) ==
    IF cid = "" THEN [ClusterID |-> gossipCID, fatal |-> ""]
    ELSE IF cid # gossipCID
         THEN [ClusterID |-> cid, fatal |-> "clusterMismatch"]
         ELSE [ClusterID |-> cid, fatal |-> ""]

\* Mutant: the 0-based loop index used as the StoreID.
bootstrapIdent_ZeroBased(clusterID, k) ==
    [ClusterID |-> clusterID, NodeID |-> 1, StoreID |-> k - 1]

\* bootstrapCluster's sIdent for the engine at 1-based position k
\* (the source's i is k - 1, and StoreID is i + 1).
bootstrapIdent(clusterID, k) ==
    [ClusterID |-> clusterID, NodeID |-> 1, StoreID |-> (k - 1) + 1]

\* Mutant: start bootstraps on either "cannot join" error.
startOnInitErr_AnyJoinError(e, call) ==
    IF e = "" THEN "startNode"
    ELSE IF call = 1 /\ e \in {"needsBootstrap", "cannotJoinSelf"}
    THEN "bootstrapCluster"
    ELSE "failed"

\* Mutant: an initStores error other than NeedsBootstrap is dropped.
startOnInitErr_DropError(e, call) ==
    IF call = 1 /\ e = "needsBootstrap" THEN "bootstrapCluster"
    ELSE "startNode"

\* start's decision on the error of the first initStores call.
startOnInitErr(e, call) ==
    IF e = "" THEN "startNode"
    ELSE IF call = 1 /\ e = "needsBootstrap" THEN "bootstrapCluster"
    ELSE "failed"

\* Mutant: a call with the NodeID the node already holds is let through.
initNodeIDOnSet_SameIsNoop(id, o) ==
    IF id = 0 \/ id = o THEN [kind |-> "noop"]
    ELSE [kind |-> "fatal", why |-> "NodeID already set"]

\* initNodeID, lines 220-225: the node already holds the NodeID o > 0.
initNodeIDOnSet(id, o) ==
    IF id = 0 THEN [kind |-> "noop"]
    ELSE [kind |-> "fatal", why |-> "NodeID already set"]

\* Mutant: whatever the allocator returns is taken.
illegalID_Never(id) == FALSE

\* initNodeID, line 233: the allocated ID initNodeID refuses.
illegalID(id) == id = 0

\* Mutant: the descriptor is gossiped before the new ID is stored in it.
gossipedDescriptor_BeforeSet(id, o) == o

\* initNodeID, lines 241-242: the NodeID in the descriptor handed to
\* SetNodeDescriptor; id has been assigned to Descriptor.NodeID, which
\* held o.
gossipedDescriptor(id, o) == id

\* Mutant: a node ID is allocated even when one is supplied.
initNodeIDResult_AlwaysAllocate(id, o, counter, allocOK, gossipOK) ==
    LET r == Inc(counter, 1)
        new == allocateNodeID(r)
    IN  IF o > 0
        THEN initNodeIDOnSet(id, o)
        ELSE IF ~gossipOK
        THEN [kind |-> "fatalSet", why |-> "SetNodeDescriptor",
              NodeID |-> new, counter |-> r, setNodeID |-> TRUE]
        ELSE [kind |-> "set", NodeID |-> new, counter |-> r,
              setNodeID |-> TRUE, desc |-> gossipedDescriptor(new, o)]

\* initNodeID(id): the outcome given the current NodeID o, the node-ID
\* counter, and whether the allocation and the gossip of the descriptor
\* succeed.  setNodeID: Gossip.SetNodeID was called with the new ID;
\* desc: the NodeID of the descriptor that was gossiped.
initNodeIDResult(id, o, counter, allocOK, gossipOK) ==
    LET r == Inc(counter, 1)
        new == allocateNodeID(r)
    IN  IF id < 0 THEN [kind |-> "fatal", why |-> "negative NodeID"]
        ELSE IF o > 0
        THEN initNodeIDOnSet(id, o)
        ELSE IF id = 0
        THEN IF ~allocOK THEN [kind |-> "fatal", why |-> "allocateNodeID"]
             ELSE IF illegalID(new)
             THEN [kind |-> "fatalAlloc", why |-> "illegal ID 0",
                   counter |-> r]
             ELSE IF ~gossipOK
             THEN [kind |-> "fatalSet", why |-> "SetNodeDescriptor",
                   NodeID |-> new, counter |-> r, setNodeID |-> TRUE]
             ELSE [kind |-> "set", NodeID |-> new, counter |-> r,
                   setNodeID |-> TRUE, desc |-> gossipedDescriptor(new, o)]
        ELSE IF ~gossipOK
             THEN [kind |-> "fatalSet", why |-> "SetNodeDescriptor",
                   NodeID |-> id, counter |-> counter, setNodeID |-> FALSE]
             ELSE [kind |-> "set", NodeID |-> id, counter |-> counter,
                   setNodeID |-> FALSE, desc |-> gossipedDescriptor(id, o)]

\* The effect of initNodeID(id) on the node, the counter and gossip.
initNodeID(id) ==
    \E allocOK \in BOOLEAN, gossipOK \in BOOLEAN :
      LET res == initNodeIDResult(id, NodeID, db.node, allocOK, gossipOK)
      IN  /\ (id # 0 \/ NodeID > 0) => allocOK
          /\ (res.kind \in {"noop", "fatal", "fatalAlloc"}) => gossipOK
          /\ CASE res.kind = "noop" ->
                    UNCHANGED <<NodeID, db, allocs, gossipVars, fatal>>
               [] res.kind = "fatal" ->
                    /\ fatal' = res.why
                    /\ UNCHANGED <<NodeID, db, allocs, gossipVars>>
               [] res.kind = "fatalAlloc" ->
                    /\ fatal' = res.why
                    /\ db' = [db EXCEPT !.node = res.counter]
                    /\ allocs' = Append(allocs,
                                   AllocRec("node", "node", 1, res.counter))
                    /\ UNCHANGED <<NodeID, gossipVars>>
               [] OTHER ->
                    /\ NodeID' = res.NodeID
                    /\ db' = [db EXCEPT !.node = res.counter]
                    /\ allocs' = IF res.setNodeID
                                 THEN Append(allocs,
                                        AllocRec("node", "node", 1, res.NodeID))
                                 ELSE allocs
                    /\ gossipNodeID' = IF res.setNodeID THEN res.NodeID
                                       ELSE gossipNodeID
                    /\ gossipDesc' = IF res.kind = "set" THEN res.desc
                                     ELSE gossipDesc
                    /\ fatal' = IF res.kind = "set" THEN "" ELSE res.why

\* ------------------------------------------------------------ Node.start

\* start, lines 250-257: the descriptor and the status monitor, then the
\* first initStores call.
start ==
    /\ Running /\ pc = "start"
    /\ pc' = "initStores"
    /\ UNCHANGED <<engines, resolvers, gossipClusterID, gossipVars,
                   gossipStorage, db, allocs, ClusterID, NodeID, stores, i,
                   bootstraps, visited, firstVisited, err, fatal, initCalls,
                   bcCalls, bcClusterID, workerVars, stopped, loopVars,
                   rpcVars, peerAllocs, lastCall>>

\* initStores, lines 311-315.
initStoresBegin ==
    /\ Running /\ pc = "initStores"
    /\ initCalls' = initCalls + 1
    /\ bootstraps' = <<>>
    /\ visited' = {}
    /\ firstVisited' = 0
    /\ IF N = 0
       THEN /\ err' = "noEngines" /\ pc' = "initRet" /\ i' = i
       ELSE /\ err' = "" /\ pc' = "initLoop" /\ i' = 1
    /\ UNCHANGED <<engines, resolvers, gossipClusterID, gossipVars,
                   gossipStorage, db, allocs, ClusterID, NodeID, stores,
                   fatal, bcCalls, bcClusterID, workerVars, stopped,
                   loopVars, rpcVars, peerAllocs, lastCall>>

\* Store.Start on engine k: "notBootstrapped" when the engine holds no
\* ident, otherwise success; any start may fail with another error.
StartOutcomes(k) ==
    {IF engines[k].boot THEN "ok" ELSE "notBootstrapped", "error"}

\* A started store that holds the first range gossips its cluster ID.
GossipAfterStart(k) ==
    IF engines[k].seeded THEN engines[k].Ident.ClusterID
    ELSE gossipClusterID

\* initStores, lines 316-337: one iteration of the loop over engines.
initStoresEngine ==
    /\ Running /\ pc = "initLoop" /\ i <= N
    /\ \E out \in StartOutcomes(i), capOK \in BOOLEAN :
         LET next == IF i = N THEN "checkBootstrap" ELSE "initLoop"
         IN  CASE out = "notBootstrapped" ->
                    /\ capOK
                    /\ bootstraps' = Append(bootstraps, i)
                    /\ i' = i + 1 /\ pc' = next
                    /\ UNCHANGED <<engines, stores, err, gossipClusterID>>
               [] out = "error" ->
                    /\ capOK
                    /\ err' = "startFailed" /\ pc' = "initRet"
                    /\ UNCHANGED <<engines, stores, bootstraps, i,
                                   gossipClusterID>>
               [] OTHER ->
                    /\ engines' = [engines EXCEPT ![i].started = TRUE]
                    /\ gossipClusterID' = GossipAfterStart(i)
                    /\ IF unidentified(engines[i].Ident)
                       THEN /\ capOK
                            /\ err' = "unidentified" /\ pc' = "initRet"
                            /\ UNCHANGED <<stores, bootstraps, i>>
                       ELSE IF ~capOK
                       THEN /\ err' = "capacity" /\ pc' = "initRet"
                            /\ UNCHANGED <<stores, bootstraps, i>>
                       ELSE /\ stores' = stores \cup {i}
                            /\ i' = i + 1 /\ pc' = next
                            /\ UNCHANGED <<bootstraps, err>>
    /\ UNCHANGED <<resolvers, gossipVars, gossipStorage, db, allocs,
                   ClusterID, NodeID, visited, firstVisited, fatal,
                   initCalls, bcCalls, bcClusterID, workerVars, stopped,
                   loopVars, rpcVars, peerAllocs, lastCall>>

\* initStores, lines 339-354.
initStoresCheck ==
    /\ Running /\ pc = "checkBootstrap"
    /\ LET e == bootstrapCheck(Cardinality(stores), resolvers)
       IN  /\ err' = e
           /\ pc' = IF e = "" THEN "validate" ELSE "initRet"
    /\ UNCHANGED <<engines, resolvers, gossipClusterID, gossipVars,
                   gossipStorage, db, allocs, ClusterID, NodeID, stores, i,
                   bootstraps, visited, firstVisited, fatal, initCalls,
                   bcCalls, bcClusterID, workerVars, stopped, loopVars,
                   rpcVars, peerAllocs, lastCall>>

\* validateStores, lines 391-403: VisitStores calls the visitor on one
\* more store, in an order the registry chooses.
validateStores ==
    /\ Running /\ pc = "validate"
    /\ \E s \in stores \ visited :
         LET v == validateStore(ClusterID, NodeID, engines[s].Ident)
         IN  /\ visited' = visited \cup {s}
             /\ firstVisited' = IF visited = {} THEN s ELSE firstVisited
             /\ CASE v = "init" ->
                       /\ ClusterID' = engines[s].Ident.ClusterID
                       /\ initNodeID(engines[s].Ident.NodeID)
                       /\ UNCHANGED <<err, pc>>
                  [] v = "ok" ->
                       UNCHANGED <<ClusterID, NodeID, db, allocs,
                                   gossipVars, fatal, err, pc>>
                  [] OTHER ->
                       /\ err' = "validation" /\ pc' = "initRet"
                       /\ UNCHANGED <<ClusterID, NodeID, db, allocs,
                                      gossipVars, fatal>>
    /\ UNCHANGED <<engines, resolvers, gossipClusterID, gossipStorage,
                   stores, i, bootstraps, initCalls, bcCalls, bcClusterID,
                   workerVars, stopped, loopVars, rpcVars, peerAllocs, lastCall>>

\* initStores, lines 357-366: validateStores returned nil; SetStorage.
initStoresSetStorage ==
    /\ Running /\ pc = "validate" /\ visited = stores
    /\ \E ok \in BOOLEAN :
         IF ok
         THEN /\ gossipStorage' = TRUE /\ pc' = "connectGossip"
              /\ UNCHANGED err
         ELSE /\ err' = "setStorage" /\ pc' = "initRet"
              /\ UNCHANGED gossipStorage
    /\ UNCHANGED <<engines, resolvers, gossipClusterID, gossipVars, db,
                   allocs, ClusterID, NodeID, stores, i, bootstraps,
                   visited, firstVisited, fatal, initCalls, bcCalls,
                   bcClusterID, workerVars, stopped, loopVars, rpcVars,
                   peerAllocs, lastCall>>

\* connectGossip, lines 447-466; taking the step is the Connected signal
\* arriving.
connectGossip ==
    /\ Running /\ pc = "connectGossip"
    /\ \E infoOK \in BOOLEAN :
         IF ~infoOK
         THEN /\ fatal' = "GetInfo" /\ UNCHANGED <<ClusterID, pc>>
         ELSE LET res == connectGossipResult(ClusterID, gossipClusterID)
              IN  /\ ClusterID' = res.ClusterID
                  /\ fatal' = res.fatal
                  /\ pc' = IF res.fatal = "" THEN "allocNodeID" ELSE pc
    /\ UNCHANGED <<engines, resolvers, gossipClusterID, gossipVars,
                   gossipStorage, db, allocs, NodeID, stores, i, bootstraps,
                   visited, firstVisited, err, initCalls, bcCalls,
                   bcClusterID, workerVars, stopped, loopVars, rpcVars,
                   peerAllocs, lastCall>>

\* initStores, lines 372-376.
initStoresNodeID ==
    /\ Running /\ pc = "allocNodeID"
    /\ IF NodeID = 0
       THEN initNodeID(0)
       ELSE UNCHANGED <<NodeID, db, allocs, gossipVars, fatal>>
    /\ pc' = IF fatal' = "" THEN "schedule" ELSE pc
    /\ UNCHANGED <<engines, resolvers, gossipClusterID, gossipStorage,
                   ClusterID, stores, i, bootstraps, visited, firstVisited,
                   err, initCalls, bcCalls, bcClusterID, workerVars,
                   stopped, loopVars, rpcVars, peerAllocs, lastCall>>

\* Stopper.RunAsyncTask: the task is started unless the stopper is
\* already stopping.
RunAsyncTask(isStopped) == ~isStopped

\* Mutant: a single pending store is not worth a task.
hasBootstraps_MoreThanOne(pending) == Len(pending) > 1

\* initStores, line 379: there are stores left to bootstrap.
hasBootstraps(pending) == Len(pending) > 0

\* initStores, lines 378-385: schedule bootstrapStores and return nil.
initStoresSchedule ==
    /\ Running /\ pc = "schedule"
    /\ IF hasBootstraps(bootstraps) /\ RunAsyncTask(stopped)
       THEN /\ bpc' = "begin" /\ blist' = bootstraps
            /\ UNCHANGED <<bj, sIdent>>
       ELSE UNCHANGED workerVars
    /\ err' = "" /\ pc' = "initRet"
    /\ UNCHANGED <<engines, resolvers, gossipClusterID, gossipVars,
                   gossipStorage, db, allocs, ClusterID, NodeID, stores, i,
                   bootstraps, visited, firstVisited, fatal, initCalls,
                   bcCalls, bcClusterID, stopped, loopVars, rpcVars,
                   peerAllocs, lastCall>>

\* start, lines 257-280: what start does with the error initStores
\* returned (the second call's error is returned whatever it is).
startAfterInit ==
    /\ Running /\ pc = "initRet"
    /\ pc' = startOnInitErr(err, initCalls)
    /\ UNCHANGED <<engines, resolvers, gossipClusterID, gossipVars,
                   gossipStorage, db, allocs, ClusterID, NodeID, stores, i,
                   bootstraps, visited, firstVisited, err, fatal, initCalls,
                   bcCalls, bcClusterID, workerVars, stopped, loopVars,
                   rpcVars, peerAllocs, lastCall>>

\* ------------------------------------------------------ bootstrapCluster

BcPhases == {"bootstrapCluster", "bcLoop", "bcRet"}

\* bootstrapCluster, lines 122-135: a fresh cluster ID and a DB over a
\* local sender: its counters are those of the new, empty key space.
bootstrapClusterBegin ==
    /\ Running /\ pc = "bootstrapCluster"
    /\ bcCalls' = bcCalls + 1
    /\ \E c \in ClusterIDs : bcClusterID' = c
    /\ db' = FreshDB
    /\ allocs' = <<>>
    /\ err' = ""
    /\ IF N = 0 THEN pc' = "bcRet" /\ i' = i ELSE pc' = "bcLoop" /\ i' = 1
    /\ UNCHANGED <<engines, resolvers, gossipClusterID, gossipVars,
                   gossipStorage, ClusterID, NodeID, stores, bootstraps,
                   visited, firstVisited, fatal, initCalls,
                   workerVars, stopped, loopVars, rpcVars, peerAllocs, lastCall>>

\* The points of one iteration at which a collaborator can fail.
BcFailPoints ==
    {"none", "Bootstrap", "BootstrapRange", "Start", "IncNode", "IncStore"}

\* bootstrapCluster, lines 136-182: one iteration of the loop.  The
\* engine after the steps that ran, the counters after the increments
\* that ran, and the error returned ("" to continue).
bootstrapClusterStep(k, eng, clusterID, counters, failAt) ==
    LET ident == bootstrapIdent(clusterID, k)
        persisted == [eng EXCEPT !.boot = TRUE, !.Ident = ident]
        seeded == IF k = 1
                  THEN [persisted EXCEPT !.seeded = TRUE] ELSE persisted
        started == [seeded EXCEPT !.started = TRUE]
        rn == Inc(counters.node, 1)
        nodeID == allocateNodeID(rn)
        afterNode == IF k = 1 THEN [counters EXCEPT !.node = rn]
                     ELSE counters
        nodeAllocs == IF k = 1
                      THEN <<AllocRec("node", "bootstrap", 1, nodeID)>>
                      ELSE <<>>
        rs == Inc(afterNode.store, 1)
        storeID == allocateStoreIDs(rs, 1)
        afterStore == [afterNode EXCEPT !.store = rs]
        storeAllocs == <<AllocRec("store", "bootstrap", 1, storeID)>>
        out(e, d, a, x) == [eng |-> e, db |-> d, allocs |-> a, err |-> x]
    IN  IF eng.Ident.ClusterID # ""
        THEN out(eng, counters, <<>>, "alreadyInCluster")
        ELSE IF failAt = "Bootstrap"
        THEN out(eng, counters, <<>>, "storeFailed")
        ELSE IF failAt = "BootstrapRange" /\ k = 1
        THEN out(persisted, counters, <<>>, "storeFailed")
        ELSE IF failAt = "Start"
        THEN out(seeded, counters, <<>>, "storeFailed")
        ELSE IF k = 1 /\ failAt = "IncNode"
        THEN out(started, counters, <<>>, "allocFailed")
        ELSE IF k = 1 /\ nodeID # ident.NodeID
        THEN out(started, afterNode, nodeAllocs, "nodeIDMismatch")
        ELSE IF failAt = "IncStore"
        THEN out(started, afterNode, nodeAllocs, "allocFailed")
        ELSE IF storeID # ident.StoreID
        THEN out(started, afterStore, nodeAllocs \o storeAllocs,
                 "storeIDMismatch")
        ELSE out(started, afterStore, nodeAllocs \o storeAllocs, "")

bootstrapClusterEngine ==
    /\ Running /\ pc = "bcLoop" /\ i <= N
    /\ \E failAt \in BcFailPoints :
         LET r == bootstrapClusterStep(i, engines[i], bcClusterID, db, failAt)
         IN  /\ (failAt \in {"BootstrapRange", "IncNode"}) => (i = 1)
             /\ engines' = [engines EXCEPT ![i] = r.eng]
             /\ db' = r.db
             /\ allocs' = allocs \o r.allocs
             /\ err' = r.err
             /\ IF r.err = ""
                THEN /\ i' = i + 1
                     /\ pc' = IF i = N THEN "bcRet" ELSE "bcLoop"
                ELSE /\ i' = i /\ pc' = "bcRet"
    /\ UNCHANGED <<resolvers, gossipClusterID, gossipVars, gossipStorage,
                   ClusterID, NodeID, stores, bootstraps, visited,
                   firstVisited, fatal, initCalls, bcCalls, bcClusterID,
                   workerVars, stopped, loopVars, rpcVars, peerAllocs, lastCall>>

\* The deferred stopper.Stop() of bootstrapCluster stops its stores.
StopStores(engs) == [k \in DOMAIN engs |-> [engs[k] EXCEPT !.started = FALSE]]

\* start, lines 261-276: bootstrapCluster has returned; on success the
\* node becomes its own resolver and initStores is called again.
startAfterBootstrap ==
    /\ Running /\ pc = "bcRet"
    /\ engines' = StopStores(engines)
    /\ IF err # ""
       THEN /\ pc' = "failed" /\ UNCHANGED <<resolvers, err>>
       ELSE \E resolverOK \in BOOLEAN :
              IF resolverOK
              THEN /\ resolvers' = <<SelfAddr>>
                   /\ pc' = "initStores" /\ UNCHANGED err
              ELSE /\ err' = "resolver" /\ pc' = "failed"
                   /\ UNCHANGED resolvers
    /\ UNCHANGED <<gossipClusterID, gossipVars, gossipStorage, db, allocs,
                   ClusterID, NodeID, stores, i, bootstraps, visited,
                   firstVisited, fatal, initCalls, bcCalls, bcClusterID,
                   workerVars, stopped, loopVars, rpcVars, peerAllocs, lastCall>>

\* --------------------------------------------------- start, lines 282-302

\* startedAt and the StartNode event.
startNode ==
    /\ Running /\ pc = "startNode"
    /\ pc' = "startPublishStatuses"
    /\ UNCHANGED <<engines, resolvers, gossipClusterID, gossipVars,
                   gossipStorage, db, allocs, ClusterID, NodeID, stores, i,
                   bootstraps, visited, firstVisited, err, fatal, initCalls,
                   bcCalls, bcClusterID, workerVars, stopped, loopVars,
                   rpcVars, peerAllocs, lastCall>>

\* startPublishStatuses, lines 498-502: the worker is launched.
startPublishStatuses ==
    /\ Running /\ pc = "startPublishStatuses"
    /\ ppc' = "wait"
    /\ pc' = "startGossip"
    /\ UNCHANGED <<engines, resolvers, gossipClusterID, gossipVars,
                   gossipStorage, db, allocs, ClusterID, NodeID, stores, i,
                   bootstraps, visited, firstVisited, err, fatal, initCalls,
                   bcCalls, bcClusterID, workerVars, stopped, gpc, gossiped,
                   published, gossipRuns, broadcast, rpcVars, peerAllocs,
                   lastCall>>

\* startGossip, lines 470-473: the worker is launched.
startGossip ==
    /\ Running /\ pc = "startGossip"
    /\ gpc' = "first"
    /\ pc' = "register"
    /\ UNCHANGED <<engines, resolvers, gossipClusterID, gossipVars,
                   gossipStorage, db, allocs, ClusterID, NodeID, stores, i,
                   bootstraps, visited, firstVisited, err, fatal, initCalls,
                   bcCalls, bcClusterID, workerVars, stopped, ppc, gossiped,
                   published, gossipRuns, broadcast, rpcVars, peerAllocs,
                   lastCall>>

\* start, lines 293-301: Node.Batch is registered last.
register ==
    /\ Running /\ pc = "register"
    /\ \E ok \in BOOLEAN :
         IF ok
         THEN /\ registered' = TRUE /\ pc' = "started" /\ UNCHANGED fatal
         ELSE /\ fatal' = "Register" /\ UNCHANGED <<registered, pc>>
    /\ UNCHANGED <<engines, resolvers, gossipClusterID, gossipVars,
                   gossipStorage, db, allocs, ClusterID, NodeID, stores, i,
                   bootstraps, visited, firstVisited, err, initCalls,
                   bcCalls, bcClusterID, workerVars, stopped, loopVars, cmd,
                   peerAllocs, lastCall>>

\* ------------------------------------------------------- bootstrapStores

\* bootstrapStores, lines 410-425: the ClusterID check, one allocation
\* of Len(list) store IDs, and the first sIdent.
bootstrapStoresBegin ==
    /\ Running /\ bpc = "begin"
    /\ IF ClusterID = ""
       THEN /\ fatal' = "ClusterID missing"
            /\ UNCHANGED <<db, allocs, bpc, bj, sIdent>>
       ELSE \E allocOK \in BOOLEAN :
              LET inc == Len(blist)
                  r == Inc(db.store, inc)
                  firstID == allocateStoreIDs(r, inc)
              IN  IF ~allocOK
                  THEN /\ fatal' = "allocateStoreIDs"
                       /\ UNCHANGED <<db, allocs, bpc, bj, sIdent>>
                  ELSE /\ db' = [db EXCEPT !.store = r]
                       /\ allocs' = Append(allocs,
                                      AllocRec("store", "node", inc, firstID))
                       /\ sIdent' = [ClusterID |-> ClusterID,
                                     NodeID |-> NodeID,
                                     StoreID |-> firstID]
                       /\ bj' = 1
                       /\ bpc' = "loop"
                       /\ UNCHANGED fatal
    /\ UNCHANGED <<engines, resolvers, gossipClusterID, gossipVars,
                   gossipStorage, ClusterID, NodeID, stores, pc, i,
                   bootstraps, visited, firstVisited, err, initCalls,
                   bcCalls, bcClusterID, blist, stopped, loopVars, rpcVars,
                   peerAllocs, lastCall>>

\* Mutant: the StoreID is not advanced.
nextIdent_Same(ident) == ident

\* bootstrapStores, line 435: the ident of the next store of the list.
nextIdent(ident) == [ident EXCEPT !.StoreID = ident.StoreID + 1]

\* bootstrapStores, lines 427-435, on one store of the list: the engine
\* after the calls that ran, whether AddStore was reached, and the call
\* whose error is fatal ("" when none failed).
bootstrapStore(eng, ident, failAt) ==
    LET persisted == [eng EXCEPT !.boot = TRUE, !.Ident = ident]
        started == [persisted EXCEPT !.started = TRUE]
    IN  IF failAt = "Bootstrap"
        THEN [eng |-> eng, added |-> FALSE, fatal |-> "Store.Bootstrap"]
        ELSE IF failAt = "Start"
        THEN [eng |-> persisted, added |-> FALSE, fatal |-> "Store.Start"]
        ELSE [eng |-> started, added |-> TRUE, fatal |-> ""]

\* bootstrapStores, lines 426-440: one iteration of the loop over the
\* list.  The store is private to the task until AddStore, so the
\* iteration is one step for every other thread.
bootstrapStoresStore ==
    /\ Running /\ bpc = "loop" /\ bj <= Len(blist)
    /\ \E failAt \in {"none", "Bootstrap", "Start"} :
         LET s == blist[bj]
             r == bootstrapStore(engines[s], sIdent, failAt)
         IN  /\ engines' = [engines EXCEPT ![s] = r.eng]
             /\ fatal' = r.fatal
             /\ stores' = IF r.added THEN stores \cup {s} ELSE stores
             /\ IF r.fatal = ""
                THEN /\ sIdent' = nextIdent(sIdent)
                     /\ gossiped' = gossiped \cup {s}
                     /\ bj' = bj + 1
                     /\ bpc' = IF bj = Len(blist) THEN "done" ELSE "loop"
                ELSE UNCHANGED <<sIdent, gossiped, bj, bpc>>
    /\ UNCHANGED <<resolvers, gossipClusterID, gossipVars, gossipStorage,
                   db, allocs, ClusterID, NodeID, pc, i, bootstraps,
                   visited, firstVisited, err, initCalls, bcCalls,
                   bcClusterID, blist, stopped, gpc, ppc, published,
                   gossipRuns, broadcast, rpcVars, peerAllocs, lastCall>>

\* ----------------------------------------------------- background loops

\* gossipStores, lines 487-494: the stores asked to GossipStore, which is
\* every store in the registry; the visitor returns nil, so the panic is
\* not taken.
gossipStores(registry) == registry

\* startGossip, line 474: the one-off run before the first wait.
gossipFirst ==
    /\ Running /\ gpc = "first"
    /\ broadcast' = gossipStores(stores)
    /\ gossiped' = gossiped \cup broadcast'
    /\ gossipRuns' = gossipRuns + 1
    /\ gpc' = "wait"
    /\ UNCHANGED <<engines, resolvers, gossipClusterID, gossipVars,
                   gossipStorage, db, allocs, ClusterID, NodeID, stores, pc,
                   i, bootstraps, visited, firstVisited, err, fatal,
                   initCalls, bcCalls, bcClusterID, workerVars, stopped, ppc,
                   published, rpcVars, peerAllocs, lastCall>>

\* startGossip, lines 476-478: the ticker fires.
gossipTick ==
    /\ Running /\ gpc = "wait"
    /\ gossipRuns <= MaxGossipTicks
    /\ broadcast' = gossipStores(stores)
    /\ gossiped' = gossiped \cup broadcast'
    /\ gossipRuns' = gossipRuns + 1
    /\ UNCHANGED <<engines, resolvers, gossipClusterID, gossipVars,
                   gossipStorage, db, allocs, ClusterID, NodeID, stores, pc,
                   i, bootstraps, visited, firstVisited, err, fatal,
                   initCalls, bcCalls, bcClusterID, workerVars, stopped, gpc,
                   ppc, published, rpcVars, peerAllocs, lastCall>>

\* startGossip, lines 479-480: ShouldStop is ready.
gossipExit ==
    /\ Running /\ gpc = "wait" /\ stopped
    /\ gpc' = "exited"
    /\ UNCHANGED <<engines, resolvers, gossipClusterID, gossipVars,
                   gossipStorage, db, allocs, ClusterID, NodeID, stores, pc,
                   i, bootstraps, visited, firstVisited, err, fatal,
                   initCalls, bcCalls, bcClusterID, workerVars, stopped, ppc,
                   gossiped, published, gossipRuns, broadcast, rpcVars,
                   peerAllocs, lastCall>>

\* Mutant: a failed publish ends the worker.
publishNext_StopOnError(outcome) ==
    IF outcome = "logged" THEN "exited" ELSE "wait"

\* startPublishStatuses, lines 506-509: after publishStoreStatuses, failed
\* or not, the worker goes back to its select.
publishNext(outcome) == "wait"

\* startPublishStatuses, lines 505-509: the ticker fires; an error of
\* publishStoreStatuses (a store's PublishStatus failing) is logged.
publishTick ==
    /\ Running /\ ppc = "wait"
    /\ Len(published) < MaxPublishTicks
    /\ \E ok \in BOOLEAN :
         LET outcome == IF ok \/ stores = {} THEN "ok" ELSE "logged"
         IN  /\ published' = Append(published, outcome)
             /\ ppc' = publishNext(outcome)
    /\ UNCHANGED <<engines, resolvers, gossipClusterID, gossipVars,
                   gossipStorage, db, allocs, ClusterID, NodeID, stores, pc,
                   i, bootstraps, visited, firstVisited, err, fatal,
                   initCalls, bcCalls, bcClusterID, workerVars, stopped, gpc,
                   gossiped, gossipRuns, broadcast, rpcVars, peerAllocs,
                   lastCall>>

\* startPublishStatuses, lines 510-511: ShouldStop is ready.
publishExit ==
    /\ Running /\ ppc = "wait" /\ stopped
    /\ ppc' = "exited"
    /\ UNCHANGED <<engines, resolvers, gossipClusterID, gossipVars,
                   gossipStorage, db, allocs, ClusterID, NodeID, stores, pc,
                   i, bootstraps, visited, firstVisited, err, fatal,
                   initCalls, bcCalls, bcClusterID, workerVars, stopped, gpc,
                   gossiped, published, gossipRuns, broadcast, rpcVars,
                   peerAllocs, lastCall>>

\* ------------------------------------------------------------ executeCmd

\* Stopper.RunTask: the task runs unless the stopper is stopping.
RunTask(isStopped) == ~isStopped

\* Two readings of the clock, the second not before the first.
ClockReadings ==
    {t \in (0..MaxClock) \X (0..MaxClock) : t[1] <= t[2]}

\* executeCmd, lines 556 and 566: time.Now().Sub(tStart).
Elapsed(tStart, tEnd) == tEnd - tStart

\* Mutant: the response is checked as Stores.Send returned it.
errorUnexpectedlySet_NoReset(pErr, brErr) == brErr

\* executeCmd, lines 559-565: with pErr set the response is replaced by an
\* empty one, then a response whose Error is set is a panic.
errorUnexpectedlySet(pErr, brErr) == (IF pErr THEN FALSE ELSE brErr)

\* Mutant: the span is finished inside the task, before CallComplete.
admittedEvents_FinishFirst(traced) ==
    <<"send">> \o (IF traced THEN <<"finish">> ELSE <<>>) \o <<"feed">>

\* executeCmd, lines 549-573: the calls of an admitted command that does
\* not panic: Stores.Send and CallComplete inside the task, the deferred
\* sp.Finish on return.
admittedEvents(traced) ==
    <<"send", "feed">> \o (IF traced THEN <<"finish">> ELSE <<>>)

\* executeCmd, lines 526-574, for a request with trace context absent
\* ("none"), joinable ("ok") or not ("bad"), on a stopper that is
\* stopping or not, for what Stores.Send returns: pErr set or nil, and a
\* response whose Error field is set or not, and for the two clock
\* readings.  The deferred sp.Finish hands the span to the recording
\* callback, which appends to br: a panic when br is still nil.
executeCmdResult(trace, isStopped, pErr, brErr, tStart, tEnd) ==
    LET traced == trace = "ok"
        finished == IF traced THEN <<"finish">> ELSE <<>>
        base == [NoCmd EXCEPT !.trace = trace, !.stopping = isStopped]
    IN  IF trace = "bad"
        THEN [base EXCEPT !.result = "traceErr"]
        ELSE IF ~RunTask(isStopped)
        THEN IF traced
             THEN [base EXCEPT !.events = finished,
                               !.result = "panic", !.finish = "nil br"]
             ELSE [base EXCEPT !.result = "stopped"]
        ELSE IF errorUnexpectedlySet(pErr, brErr)
        THEN [base EXCEPT !.result = "panic", !.sent = TRUE,
                          !.pErr = pErr, !.brErr = brErr,
                          !.events = <<"send">> \o finished,
                          !.finish = IF traced THEN "recorded" ELSE "none"]
        ELSE [base EXCEPT !.result = "ok", !.sent = TRUE,
                          !.pErr = pErr, !.brErr = brErr,
                          !.events = admittedEvents(traced),
                          !.feed = IF pErr THEN "err" ELSE "nil",
                          !.duration = Elapsed(tStart, tEnd),
                          !.brError = pErr,
                          !.finish = IF traced THEN "recorded" ELSE "none"]

executeCmd ==
    /\ Running /\ registered
    /\ \E trace \in {"none", "ok", "bad"}, pErr \in BOOLEAN,
          brErr \in BOOLEAN, t \in ClockReadings :
         LET r == executeCmdResult(trace, stopped, pErr, brErr, t[1], t[2])
         IN  /\ cmd' = r
             /\ fatal' = IF r.result = "panic"
                         THEN IF r.sent THEN "ErrorUnexpectedlySet"
                              ELSE "nil BatchResponse"
                         ELSE fatal
    /\ UNCHANGED <<engines, resolvers, gossipClusterID, gossipVars,
                   gossipStorage, db, allocs, ClusterID, NodeID, stores, pc,
                   i, bootstraps, visited, firstVisited, err, initCalls,
                   bcCalls, bcClusterID, workerVars, stopped, loopVars,
                   registered, peerAllocs, lastCall>>

\* ----------------------------------------------------------- environment

\* The stopper's shutdown signal fires.
stop ==
    /\ Running /\ ~stopped /\ pc # "failed"
    /\ stopped' = TRUE
    /\ UNCHANGED <<engines, resolvers, gossipClusterID, gossipVars,
                   gossipStorage, db, allocs, ClusterID, NodeID, stores, pc,
                   i, bootstraps, visited, firstVisited, err, fatal,
                   initCalls, bcCalls, bcClusterID, workerVars, loopVars,
                   rpcVars, peerAllocs, lastCall>>

PeerIncs == {1, 2}

\* Another node of the cluster allocates store IDs from the same counter,
\* at any moment between this node's first initStores step and its end
\* (an allocation before that is part of the initial counter value), but
\* not while bootstrapCluster runs on its private local sender, and only
\* if there is a cluster: one this node has stores of, joins or created.
peerAllocateStoreIDs ==
    /\ Running /\ pc \notin BcPhases \cup {"start", "failed"}
    /\ bcCalls > 0 \/ resolvers # <<>> \/ \E k \in 1..N : engines[k].boot
    /\ peerAllocs < MaxPeerAllocs
    /\ peerAllocs' = peerAllocs + 1
    /\ \E inc \in PeerIncs :
         LET r == Inc(db.store, inc)
         IN  /\ db' = [db EXCEPT !.store = r]
             /\ allocs' = Append(allocs,
                            AllocRec("store", "peer", inc,
                                     allocateStoreIDs(r, inc)))
    /\ UNCHANGED <<engines, resolvers, gossipClusterID, gossipVars,
                   gossipStorage, ClusterID, NodeID, stores, pc, i,
                   bootstraps, visited, firstVisited, err, fatal, initCalls,
                   bcCalls, bcClusterID, workerVars, stopped, loopVars,
                   rpcVars, lastCall>>

\* The steps of Node.start and of the bootstrapStores task it launches,
\* and the shutdown signal.
StartupNext ==
    \/ start
    \/ initStoresBegin
    \/ initStoresEngine
    \/ initStoresCheck
    \/ validateStores
    \/ initStoresSetStorage
    \/ connectGossip
    \/ initStoresNodeID
    \/ initStoresSchedule
    \/ startAfterInit
    \/ bootstrapClusterBegin
    \/ bootstrapClusterEngine
    \/ startAfterBootstrap
    \/ startNode
    \/ startPublishStatuses
    \/ startGossip
    \/ register
    \/ bootstrapStoresBegin
    \/ bootstrapStoresStore
    \/ stop

\* Start-up, with other nodes allocating from the same counters.
Next == StartupNext \/ peerAllocateStoreIDs

Spec == Init /\ [][Next]_vars

\* Start-up, then the dispatcher.  The two workers are launched by
\* start-up; their ticks share no state with executeCmd and are the
\* steps of LoopSpec.
NodeNext ==
    \/ StartupNext
    \/ executeCmd

NodeSpec == NodeInit /\ [][NodeNext]_vars

\* Start-up, then the two periodic workers.
LoopInit == InitWith(NodeEngineLists, NodeResolverLists, {InitDB})

LoopNext ==
    \/ StartupNext
    \/ gossipFirst
    \/ gossipTick
    \/ gossipExit
    \/ publishTick
    \/ publishExit

LoopSpec == LoopInit /\ [][LoopNext]_vars

\* ----------------------------------------------- initNodeID, called alone

\* The arguments and the node-ID counters initNodeID is tried on: a
\* negative ID, 0 and positive IDs; a counter whose next value is 0.
NodeIDArgs == -1..MaxID
InitNodeIDDBs == {[InitDB EXCEPT !.node = c] : c \in -1..MaxID}

\* A freshly constructed node on which initNodeID is called directly.
InitNodeIDInit == InitWith({<<>>}, {<<>>}, InitNodeIDDBs)

\* initNodeID(id), lines 215-245, called with any argument, any number of
\* times, for as long as the process has not halted.
callInitNodeID ==
    /\ Running /\ pc = "start"
    /\ \E id \in NodeIDArgs :
         /\ lastCall' = [made |-> TRUE, id |-> id, o |-> NodeID,
                         gossip |-> gossipVars]
         /\ initNodeID(id)
    /\ UNCHANGED <<engines, resolvers, gossipClusterID, gossipStorage,
                   ClusterID, stores, pc, i, bootstraps, visited,
                   firstVisited, err, initCalls, bcCalls, bcClusterID,
                   workerVars, stopped, loopVars, rpcVars, peerAllocs>>

InitNodeIDNext == callInitNodeID

InitNodeIDSpec == InitNodeIDInit /\ [][InitNodeIDNext]_vars

\* ================================================================ claims

AllBlank == \A k \in 1..N : ~engines[k].boot
AllIdentified ==
    \A k \in 1..N : engines[k].boot /\ ~unidentified(engines[k].Ident)
SameIdentity ==
    \A k, l \in 1..N :
        /\ engines[k].Ident.ClusterID = engines[l].Ident.ClusterID
        /\ engines[k].Ident.NodeID = engines[l].Ident.NodeID
\* Errors and fatal halts that come from a collaborator failing (a store,
\* the KV increment, gossip, the RPC server), not from node.go's checks.
StoreErrors == {"startFailed", "capacity", "setStorage"}
CollaboratorFatals == {"GetInfo", "SetNodeDescriptor", "Register"}

\* C1: bootstrapCluster, which runs on N >= 1 blank engines and counters
\* at 0, fails only if a store or the increment fails (never on its own
\* checks), and when it returns success every engine k (1-based) holds the
\* ident {the returned ClusterID, NodeID 1, StoreID k}, the ClusterID being
\* non-empty; the engines before the loop index hold theirs already.
C1_BootstrapClusterIdents ==
    /\ pc = "bootstrapCluster" => N >= 1 /\ AllBlank
    /\ pc \in {"bcLoop", "bcRet"} =>
         /\ err \in {"", "storeFailed", "allocFailed"}
         /\ bcClusterID # ""
         /\ \A k \in 1..N :
              (k < i \/ (pc = "bcRet" /\ err = "")) =>
                 /\ engines[k].boot
                 /\ engines[k].Ident = [ClusterID |-> bcClusterID,
                                        NodeID |-> 1, StoreID |-> k]
         /\ (pc = "bcRet" /\ err = "") =>
              db = [node |-> 1, store |-> N]

C1_Witness == pc = "bcRet" /\ err = "" /\ N = 2 /\ engines[2].Ident.StoreID = 2

\* C2: the step of initStores after the engine loop, taken with an empty
\* Store Registry: no resolver gives NeedsBootstrap; one resolver whose
\* address is the node's own gives CannotJoinSelf; one resolver that is not
\* self, or two or more resolvers of any addresses, gives neither error and
\* initStores goes on to validateStores.
C2_BootstrapCheck ==
    [][(pc = "checkBootstrap" /\ pc' # pc /\ Cardinality(stores) = 0) =>
         /\ Len(resolvers) = 0 =>
              (pc' = "initRet" /\ err' = "needsBootstrap")
         /\ (Len(resolvers) = 1 /\ resolvers[1] = SelfAddr) =>
              (pc' = "initRet" /\ err' = "cannotJoinSelf")
         /\ ((Len(resolvers) = 1 /\ resolvers[1] # SelfAddr)
               \/ Len(resolvers) >= 2) =>
              (pc' = "validate" /\ err' = "" /\ fatal' = "")]_vars

C2_Witness ==
    /\ pc = "validate" /\ stores = {} /\ N >= 1
    /\ resolvers = <<"self", "self">>

\* C3: bootstrapCluster is begun at most once, and only from the first
\* initStores call having returned NeedsBootstrap with no engine holding an
\* ident, no store registered and no resolver; any other error of
\* initStores makes start fail with that error, with no bootstrap and no
\* second initStores call, and a failed start takes no further step.
C3_BootstrapOnlyOnNeedsBootstrap ==
    /\ [][bcCalls' # bcCalls =>
            /\ bcCalls = 0 /\ bcCalls' = 1
            /\ initCalls = 1 /\ pc = "bootstrapCluster"
            /\ err = "needsBootstrap"
            /\ AllBlank /\ stores = {} /\ resolvers = <<>>]_vars
    /\ [][(pc = "initRet" /\ pc' # pc /\ err # ""
            /\ ~(initCalls = 1 /\ err = "needsBootstrap")) =>
            /\ pc' = "failed" /\ err' = err
            /\ bcCalls' = bcCalls /\ initCalls' = initCalls]_vars
    /\ [][pc = "failed" => UNCHANGED vars]_vars
    /\ [][(pc = "initRet" /\ pc' = "bootstrapCluster") =>
            (initCalls = 1 /\ err = "needsBootstrap")]_vars

C3_Witness == bcCalls = 1 /\ initCalls = 2 /\ pc = "started"

\* C4: with blank engines and no resolvers, the first initStores returns
\* NeedsBootstrap with nothing registered and no identity set; after
\* bootstrapCluster the node is its only resolver; the second initStores
\* returns no error of its own checks (only a failing store or gossip call
\* can stop it) and on success the registry holds all N stores and the
\* node has the new cluster's ID and NodeID 1.
C4_SelfBootstrapStart ==
    /\ (pc = "initRet" /\ initCalls = 1 /\ err = "needsBootstrap") =>
         (stores = {} /\ ClusterID = "" /\ NodeID = 0 /\ AllBlank)
    /\ (initCalls = 2) =>
         /\ bcCalls = 1 /\ resolvers = <<SelfAddr>>
         /\ fatal \in {""} \cup CollaboratorFatals
         /\ bpc = "idle"
         /\ pc = "initRet" => err \in {""} \cup StoreErrors
         /\ (pc \notin {"initLoop", "checkBootstrap", "validate",
                        "connectGossip", "failed"}
             /\ ~(pc = "initRet" /\ err # "")) =>
              /\ stores = 1..N /\ Cardinality(stores) = N /\ N >= 1
              /\ ClusterID = bcClusterID /\ ClusterID # ""
              /\ (fatal = "" => NodeID = 1)

C4_Witness ==
    /\ initCalls = 2 /\ pc = "initRet" /\ err = "" /\ N = 2
    /\ Cardinality(stores) = 2 /\ NodeID = 1 /\ resolvers = <<SelfAddr>>

\* C5: when every engine holds a complete ident but they do not all agree
\* on ClusterID and NodeID, initStores never gets past validateStores: it
\* returns the validation error (or, earlier, a store's own failure), and
\* after the validation error the node's ClusterID and NodeID are those of
\* the first store validateStores visited.
C5_ValidationKeepsFirst ==
    (N >= 1 /\ AllIdentified /\ ~SameIdentity /\ bcCalls = 0) =>
       /\ pc \in {"start", "initStores", "initLoop", "checkBootstrap",
                  "validate", "initRet", "failed"}
       /\ pc \in {"initRet", "failed"} =>
            err \in {"validation"} \cup StoreErrors
       /\ (pc \in {"initRet", "failed"} /\ err = "validation") =>
            /\ firstVisited \in stores
            /\ ClusterID = engines[firstVisited].Ident.ClusterID
            /\ NodeID = engines[firstVisited].Ident.NodeID

C5_Witness ==
    /\ pc = "initRet" /\ err = "validation" /\ firstVisited = 2
    /\ AllIdentified /\ NodeID = 2
    /\ engines[1].Ident.ClusterID = engines[2].Ident.ClusterID

StoreAllocs == SelectSeq(allocs, LAMBDA a : a.gen = "store")
NodeStoreAllocs ==
    SelectSeq(allocs, LAMBDA a : a.by = "node" /\ a.gen = "store")

\* C6: when every engine holds a complete ident, all with one ClusterID
\* and one NodeID, and gossip reports that ClusterID, initStores fails only
\* if a store or gossip call fails; when it returns nil every engine's
\* store is registered, and this node increments neither the node-ID nor
\* the store-ID counter (the only increments are other nodes').
C6_NoAllocationWhenBootstrapped ==
    (N >= 1 /\ AllIdentified /\ SameIdentity /\ bcCalls = 0
       /\ bootstraps = <<>> /\ bpc = "idle"
       /\ gossipClusterID = engines[1].Ident.ClusterID) =>
       /\ \A x \in 1..Len(allocs) : allocs[x].by = "peer"
       /\ db.node = InitDB.node
       /\ allocs = <<>> => db.store = InitDB.store
       /\ pc \in {"initRet", "failed"} => err \in {""} \cup StoreErrors
       /\ fatal \in {""} \cup CollaboratorFatals
       /\ (pc \in {"initRet", "startNode", "startPublishStatuses",
                   "startGossip", "register", "started"} /\ err = "") =>
            /\ stores = 1..N
            /\ ClusterID = engines[1].Ident.ClusterID
            /\ NodeID = engines[1].Ident.NodeID

C6_Witness ==
    /\ pc = "initRet" /\ err = "" /\ N = 2 /\ bcCalls = 0
    /\ AllIdentified /\ stores = {1, 2} /\ allocs = <<>>

\* C7: every store-ID allocation returns (post-increment counter - count
\* + 1): the counter always stands at the last ID of the latest range, each
\* range starts where the one before it ended (first + count), so in the
\* order of the increments the first IDs strictly increase and the ranges
\* [first, first + count) of any two allocations, by whichever caller, are
\* disjoint.
C7_StoreIDRangesDisjoint ==
    LET sa == StoreAllocs
    IN  /\ \A x \in 1..Len(sa) : sa[x].inc >= 1
        /\ sa # <<>> => db.store = sa[Len(sa)].first + sa[Len(sa)].inc - 1
        /\ \A x \in 1..(Len(sa) - 1) :
              sa[x + 1].first = sa[x].first + sa[x].inc
        /\ \A x, y \in 1..Len(sa) :
              x < y =>
                /\ sa[x].first < sa[y].first
                /\ {sa[x].first + d : d \in 0..(sa[x].inc - 1)}
                     \cap {sa[y].first + d : d \in 0..(sa[y].inc - 1)} = {}

C7_Witness ==
    /\ Len(StoreAllocs) = 2
    /\ StoreAllocs[1].by = "node" /\ StoreAllocs[1].inc = 2
    /\ StoreAllocs[2].by = "peer"
    /\ StoreAllocs[2].first = StoreAllocs[1].first + 2

\* C8: bootstrapStores runs only with a non-empty ClusterID and a NodeID
\* above zero; it makes exactly one allocation, of as many IDs as the list
\* is long; the j-th store of the list (0-based) is persisted with
\* {ClusterID, NodeID, first + j}; and a store is in the registry only
\* once its ident is persisted and it has been started.
C8_BootstrapStoresIdents ==
    /\ bpc # "idle" =>
         /\ ClusterID # "" /\ NodeID > 0
         /\ fatal # "ClusterID missing"
         /\ blist # <<>> /\ blist = bootstraps
    /\ bpc \in {"idle", "begin"} => NodeStoreAllocs = <<>>
    /\ bpc \in {"loop", "done"} =>
         /\ Len(NodeStoreAllocs) = 1
         /\ NodeStoreAllocs[1].inc = Len(blist)
         /\ sIdent = [ClusterID |-> ClusterID, NodeID |-> NodeID,
                      StoreID |-> NodeStoreAllocs[1].first + (bj - 1)]
         /\ \A j \in 1..Len(blist) :
              IF j < bj
              THEN /\ blist[j] \in stores
                   /\ engines[blist[j]].Ident =
                        [ClusterID |-> ClusterID, NodeID |-> NodeID,
                         StoreID |-> NodeStoreAllocs[1].first + (j - 1)]
              ELSE blist[j] \notin stores
    /\ \A s \in stores : engines[s].boot /\ engines[s].started

C8_Witness ==
    /\ bpc = "done" /\ Len(blist) = 2
    /\ engines[blist[2]].Ident.StoreID = NodeStoreAllocs[1].first + 1
    /\ blist[2] \in stores

PendingRegistered ==
    /\ bpc = "done"
    /\ \A j \in 1..Len(blist) :
         /\ blist[j] \in stores
         /\ engines[blist[j]].Ident.ClusterID = ClusterID
         /\ engines[blist[j]].Ident.NodeID = NodeID
         /\ engines[blist[j]].Ident.StoreID > InitDB.store
         /\ \A k \in 1..N :
              k # blist[j] =>
                engines[k].Ident.StoreID # engines[blist[j]].Ident.StoreID

\* The scheduler runs the node's goroutines: the start-up thread's
\* scheduling step and the steps of the bootstrapStores task.
FairSpec ==
    /\ Spec
    /\ WF_vars(initStoresSchedule)
    /\ WF_vars(bootstrapStoresBegin)
    /\ WF_vars(bootstrapStoresStore)

\* C9: initStores returns nil in the very step that launches
\* bootstrapStores, with no pending store registered yet; and from the
\* point where initStores is about to schedule a non-empty pending list,
\* eventually every pending store is registered with the node's ClusterID
\* and NodeID and a fresh StoreID, unless the process halts on a failed
\* call or the node is shut down.
C9_PendingEventuallyRegistered ==
    /\ [][(bpc = "idle" /\ bpc' # "idle") =>
            /\ bpc' = "begin" /\ pc' = "initRet" /\ err' = ""
            /\ stores' = stores
            /\ \A j \in 1..Len(blist') : blist'[j] \notin stores']_vars
    /\ (pc = "schedule" /\ Len(bootstraps) > 0)
         ~> (PendingRegistered \/ fatal # "" \/ stopped)

C9_Witness ==
    /\ pc = "started" /\ bpc = "begin" /\ ~stopped
    /\ \A j \in 1..Len(blist) : blist[j] \notin stores

\* C10: once the node's ClusterID is non-empty no step changes it; the
\* step of connectGossip that reads a different cluster ID halts the
\* process, and the step of validateStores that visits a store of another
\* cluster makes initStores, and then start, fail.
C10_ClusterIDSetOnce ==
    /\ [][ClusterID # "" => ClusterID' = ClusterID]_vars
    /\ [][(pc = "connectGossip" /\ <<pc, fatal>>' # <<pc, fatal>>
            /\ ClusterID # "" /\ fatal' # "GetInfo"
            /\ ClusterID # gossipClusterID) =>
            fatal' = "clusterMismatch"]_vars
    /\ [][(pc = "validate" /\ ClusterID # ""
            /\ \E s \in visited' \ visited :
                 engines[s].Ident.ClusterID # ClusterID) =>
            (pc' = "initRet" /\ err' = "validation")]_vars
    /\ [][(pc = "initRet" /\ err = "validation" /\ pc' # pc) =>
            pc' = "failed"]_vars
    /\ [][(pc = "failed" \/ fatal # "") => UNCHANGED vars]_vars

C10_Witness ==
    /\ fatal = "clusterMismatch" /\ ClusterID # ""
    /\ ClusterID # gossipClusterID /\ pc = "connectGossip"

NodeIDAllocs ==
    SelectSeq(allocs, LAMBDA a : a.gen = "node" /\ a.by = "node")

\* C11: once the node's NodeID is non-zero no step changes it, whether
\* the step is validateStores calling initNodeID with a store's NodeID or
\* initStores' allocation step; the NodeID is only ever set from zero, and
\* to a non-zero value; and when the allocator returns 0 the process halts
\* with the NodeID still unset and nothing handed to gossip.
C11_NodeIDSetOnce ==
    /\ [][NodeID # 0 => NodeID' = NodeID]_vars
    /\ [][NodeID' # NodeID => (NodeID = 0 /\ NodeID' > 0)]_vars
    /\ [][(pc = "allocNodeID" /\ NodeID # 0) =>
            UNCHANGED <<NodeID, db, allocs, gossipVars>>]_vars
    /\ [][(Len(NodeIDAllocs') > Len(NodeIDAllocs)
            /\ NodeIDAllocs'[Len(NodeIDAllocs')].first = 0) =>
            /\ fatal' = "illegal ID 0"
            /\ UNCHANGED <<NodeID, gossipVars>>]_vars
    /\ [][fatal # "" => UNCHANGED vars]_vars

C11_Witness ==
    /\ fatal = "illegal ID 0" /\ NodeID = 0 /\ gossipNodeID = 0
    /\ pc = "allocNodeID" /\ db.node = 0
    /\ Len(NodeIDAllocs) = 1 /\ NodeIDAllocs[1].first = 0

\* The positions of start after connectGossip has returned.
PostConnect ==
    {"allocNodeID", "schedule", "startNode", "startPublishStatuses",
     "startGossip", "register", "started"}
ForeignStores ==
    \E s \in stores : engines[s].Ident.ClusterID # gossipClusterID

\* C12: the step of connectGossip that has read the gossiped cluster ID:
\* an empty ClusterID becomes the gossiped one; a ClusterID equal to it is
\* kept; a ClusterID that differs halts the process in that step with
\* nothing else changed.  So while a registered store belongs to another
\* cluster than the gossiped one, start is never past connectGossip: this
\* node has allocated no NodeID and no StoreIDs, the bootstrapStores task
\* and the two workers have not been launched, and Node.Batch is not
\* registered.
C12_ConnectGossip ==
    /\ [][(pc = "connectGossip" /\ <<pc, fatal>>' # <<pc, fatal>>
            /\ fatal' # "GetInfo") =>
            /\ ClusterID = "" =>
                 /\ ClusterID' = gossipClusterID
                 /\ fatal' = "" /\ pc' = "allocNodeID"
            /\ (ClusterID # "" /\ ClusterID = gossipClusterID) =>
                 /\ ClusterID' = ClusterID
                 /\ fatal' = "" /\ pc' = "allocNodeID"
            /\ (ClusterID # "" /\ ClusterID # gossipClusterID) =>
                 /\ fatal' = "clusterMismatch"
                 /\ ClusterID' = ClusterID /\ pc' = pc
                 /\ UNCHANGED <<NodeID, db, allocs, gossipVars, workerVars,
                                loopVars, rpcVars, stores, engines>>]_vars
    /\ [][fatal = "clusterMismatch" => UNCHANGED vars]_vars
    /\ [](ForeignStores =>
            /\ pc \notin PostConnect
            /\ NodeIDAllocs = <<>> /\ NodeStoreAllocs = <<>>
            /\ bpc = "idle" /\ gpc = "off" /\ ppc = "off"
            /\ ~registered /\ cmd = NoCmd)
    /\ [](pc \in PostConnect => ClusterID = gossipClusterID)

C12_Witness ==
    /\ fatal = "clusterMismatch" /\ ForeignStores
    /\ bootstraps # <<>> /\ NodeID > 0 /\ bpc = "idle" /\ ~registered

EngineErrors == {"startFailed", "unidentified", "capacity"}

\* The five things initStores can do with engine k, as seen in one step.
EngineOutcome(c, k) ==
    LET complete == /\ engines[k].boot
                    /\ engines[k].Ident.ClusterID # ""
                    /\ engines[k].Ident.NodeID # 0
        goesOn == /\ i' = k + 1 /\ err' = ""
                  /\ pc' = IF k = N THEN "checkBootstrap" ELSE "initLoop"
        returns(e) == /\ err' = e /\ pc' = "initRet" /\ i' = k
                      /\ stores' = stores /\ bootstraps' = bootstraps
    IN  CASE c = 1 -> /\ ~engines[k].boot /\ ~engines'[k].started
                      /\ bootstraps' = Append(bootstraps, k)
                      /\ stores' = stores /\ goesOn
          [] c = 2 -> /\ returns("startFailed") /\ ~engines'[k].started
          [] c = 3 -> /\ engines[k].boot /\ ~complete
                      /\ engines'[k].started /\ returns("unidentified")
          [] c = 4 -> /\ complete /\ engines'[k].started
                      /\ returns("capacity")
          [] OTHER -> /\ complete /\ engines'[k].started
                      /\ stores' = stores \cup {k}
                      /\ bootstraps' = bootstraps /\ goesOn

\* What holds once initStores has returned an engine's error.
AfterEngineError ==
    (pc \in {"initRet", "failed"} /\ err \in EngineErrors) =>
       /\ \A k \in (i + 1)..N : ~engines[k].started /\ k \notin stores
       /\ \A j \in 1..Len(bootstraps) :
            /\ ~engines[bootstraps[j]].boot
            /\ bootstraps[j] \notin stores
       /\ bpc = "idle"
       /\ NodeIDAllocs = <<>> /\ NodeStoreAllocs = <<>>

\* C13: every step of initStores' loop over the engines is exactly one of:
\* the store is not bootstrapped and joins the pending list, and the loop
\* goes on; start fails otherwise and initStores returns; the store starts
\* with an empty ClusterID or a zero NodeID and initStores returns
\* 'unidentified store', the store not pending; the store starts with a
\* complete ident, the capacity query fails and initStores returns; or the
\* store is registered and the loop goes on.  After any of the three error
\* returns no later engine is started or registered, no pending store is
\* bootstrapped, the task is not launched and this node makes no
\* allocation.
C13_EngineOutcomes ==
    /\ [][(pc = "initLoop" /\ <<pc, i>>' # <<pc, i>>) =>
            /\ Cardinality({c \in 1..5 : EngineOutcome(c, i)}) = 1
            /\ \A k \in 1..N : k # i => engines'[k] = engines[k]
            /\ UNCHANGED <<ClusterID, NodeID, db, allocs, workerVars>>]_vars
    /\ [][(pc \in {"initRet", "failed"} /\ err \in EngineErrors) =>
            /\ pc' \in {pc, "failed"} /\ err' = err
            /\ UNCHANGED <<engines, stores, bootstraps, workerVars,
                           ClusterID, NodeID, db.node>>
            /\ NodeStoreAllocs' = NodeStoreAllocs]_vars
    /\ [][AfterEngineError']_vars

C13_Witness ==
    /\ pc = "failed" /\ err = "unidentified" /\ N = 2 /\ i = 2
    /\ bootstraps = <<1>> /\ ~engines[1].boot /\ engines[2].started
    /\ engines[2].Ident.NodeID = 0 /\ stores = {}

\* The halts that are executeCmd's own panics.
CmdFatals == {"ErrorUnexpectedlySet", "nil BatchResponse"}

\* C14: every executeCmd call made once the shutdown signal has fired,
\* whatever the request's trace context, returns the 'node stopped' error
\* with no response, calls neither Stores.Send nor CallComplete, and does
\* not halt the process.
C14_StoppedReturnsError ==
    (cmd.result # "none" /\ cmd.stopping) =>
       /\ cmd.result = "stopped"
       /\ ~cmd.sent /\ cmd.feed = "none"
       /\ fatal \notin CmdFatals

CountOf(e, events) ==
    Cardinality({x \in 1..Len(events) : events[x] = e})

\* C15: an admitted command for which Stores.Send reports no error and
\* returns a response with no Error: executeCmd returns that response, its
\* Error unset, having called CallComplete exactly once, with a nil error
\* and an elapsed time of at least zero, and, when the request carries a
\* trace, before the span is finished and recorded into the response.
C15_CompletionReported ==
    (cmd.sent /\ ~cmd.pErr /\ ~cmd.brErr) =>
       /\ cmd.result = "ok" /\ ~cmd.brError /\ fatal \notin CmdFatals
       /\ CountOf("send", cmd.events) = 1
       /\ CountOf("feed", cmd.events) = 1
       /\ cmd.feed = "nil" /\ cmd.duration >= 0
       /\ \A x, y \in 1..Len(cmd.events) :
            (cmd.events[x] = "feed" /\ cmd.events[y] = "finish") => x < y
       /\ cmd.trace = "ok" =>
            (CountOf("finish", cmd.events) = 1 /\ cmd.finish = "recorded")
       /\ cmd.trace = "none" =>
            (CountOf("finish", cmd.events) = 0 /\ cmd.finish = "none")

C15_Witness ==
    /\ cmd.sent /\ ~cmd.pErr /\ ~cmd.brErr /\ cmd.trace = "ok"
    /\ cmd.events = <<"send", "feed", "finish">>
    /\ cmd.duration = MaxClock /\ cmd.result = "ok"

\* C16 as stated: whenever Stores.Send returns a response whose Error is
\* set, whether the error it reports beside it is nil or not, executeCmd
\* panics, returns no response and reports no completion.
C16_EmbeddedErrorAlwaysPanics ==
    (cmd.sent /\ cmd.brErr) =>
       /\ cmd.result = "panic" /\ fatal = "ErrorUnexpectedlySet"
       /\ cmd.feed = "none" /\ CountOf("feed", cmd.events) = 0

\* C16, amended: executeCmd panics exactly when Stores.Send reports no
\* error and returns a response whose Error is set; it then returns no
\* response and reports no completion.  When Stores.Send reports an error
\* the response is replaced by an empty one first, so a response with an
\* Error set is dropped without a panic: the completion is reported with
\* the reported error, which is also the returned response's Error.
C16_PanicOnlyWithoutReportedError ==
    cmd.sent =>
       /\ cmd.result = "panic" <=> (~cmd.pErr /\ cmd.brErr)
       /\ cmd.result = "panic" =>
            /\ fatal = "ErrorUnexpectedlySet"
            /\ cmd.feed = "none" /\ CountOf("feed", cmd.events) = 0
            /\ ~cmd.brError
       /\ cmd.result # "panic" =>
            /\ cmd.result = "ok" /\ fatal \notin CmdFatals
            /\ CountOf("feed", cmd.events) = 1
            /\ cmd.feed = (IF cmd.pErr THEN "err" ELSE "nil")
            /\ cmd.brError = cmd.pErr

C16_Witness ==
    /\ cmd.sent /\ cmd.pErr /\ cmd.brErr
    /\ cmd.result = "ok" /\ cmd.feed = "err" /\ cmd.brError /\ fatal = ""

Pending == {bootstraps[j] : j \in 1..Len(bootstraps)}
IdentityAndLoopsReady ==
    /\ ClusterID # "" /\ NodeID > 0
    /\ gpc # "off" /\ ppc # "off"
    /\ gossipStorage

\* C17 as stated: Node.Batch is registered, and a command dispatched, only
\* when ClusterID and NodeID are set, both workers have been started and
\* the store of every engine passed to start, the pending ones included,
\* is in the Store Registry.
C17_RegisteredAfterEveryStore ==
    (registered \/ cmd # NoCmd) =>
       (IdentityAndLoopsReady /\ stores = 1..N)

\* C17, amended: Node.Batch is registered by the last step of a start that
\* returns success, and a command is dispatched only after it; by then
\* ClusterID and NodeID are set, both workers have been started, and the
\* store of every engine that was already bootstrapped is in the Store
\* Registry.  The engines that were pending bootstrap are registered by
\* the bootstrapStores task, which start does not wait for: each is in the
\* registry or still on the task's list.
C17_RegisteredAfterInit ==
    /\ (registered \/ cmd # NoCmd) =>
         /\ registered /\ pc = "started" /\ err = ""
         /\ IdentityAndLoopsReady
         /\ N >= 1 /\ stores \cup Pending = 1..N
         /\ \A k \in Pending \ stores :
              \/ bpc \in {"begin", "loop"} /\ blist = bootstraps
              \/ bpc = "idle" /\ stopped
    /\ registered => pc = "started"
    /\ pc \in {"register", "started"} => IdentityAndLoopsReady

C17_Witness ==
    /\ registered /\ cmd.sent /\ cmd.result = "ok"
    /\ bpc = "begin" /\ Pending # {} /\ Pending \cap stores = {}
    /\ fatal = "" /\ ~stopped

\* C18 as stated: initNodeID(id) on a node that holds the NodeID o > 0
\* leaves the NodeID at o, and: id = 0 is a no-op; id = o is a no-op that
\* leaves the descriptor and gossip as they were; any other non-zero id
\* halts the process.
C18_SameIDIsNoop ==
    (lastCall.made /\ lastCall.o > 0) =>
       /\ NodeID = lastCall.o
       /\ lastCall.id = 0 => fatal = ""
       /\ lastCall.id = lastCall.o =>
            (fatal = "" /\ gossipVars = lastCall.gossip)
       /\ lastCall.id \notin {0, lastCall.o} => fatal # ""

\* C18, amended: initNodeID(id) on a node that holds the NodeID o > 0
\* leaves the NodeID at o and gossip as it was, makes no allocation, and:
\* id = 0 is a no-op; every non-zero id, the same as o or not, halts the
\* process.
C18_NonZeroIDHalts ==
    (lastCall.made /\ lastCall.o > 0) =>
       /\ NodeID = lastCall.o
       /\ gossipVars = lastCall.gossip
       /\ Len(NodeIDAllocs) <= 1
       /\ lastCall.id = 0 => fatal = ""
       /\ lastCall.id > 0 => fatal = "NodeID already set"
       /\ lastCall.id < 0 => fatal = "negative NodeID"

C18_Witness ==
    /\ lastCall.made /\ lastCall.o > 0 /\ lastCall.id = lastCall.o
    /\ fatal = "NodeID already set" /\ NodeID = lastCall.o

FairLoopSpec ==
    /\ LoopSpec
    /\ WF_vars(gossipFirst)
    /\ WF_vars(gossipExit)
    /\ WF_vars(publishExit)

\* C20: the gossip worker's first step broadcasts every registered store,
\* before any tick; every later run is one tick's and again broadcasts
\* every store registered at that moment.  The publish worker publishes
\* once per tick, and a failed publish changes nothing but the log: the
\* worker waits for the next tick and the process goes on.  A worker
\* exits only once the shutdown signal has fired, and then makes no
\* further broadcast or publish; and once the signal has fired each
\* worker that was started eventually exits, unless the process halts.
C20_WorkersRunUntilStopped ==
    /\ [][(gpc = "first" /\ gpc' # gpc) =>
            /\ gpc' = "wait" /\ gossipRuns = 0 /\ gossipRuns' = 1
            /\ broadcast' = stores /\ gossiped' = gossiped \cup stores]_vars
    /\ [][gossipRuns' # gossipRuns =>
            /\ gossipRuns' = gossipRuns + 1
            /\ gpc \in {"first", "wait"} /\ gpc' = "wait"
            /\ broadcast' = stores /\ stores \subseteq gossiped'
            /\ published' = published]_vars
    /\ [](gpc \in {"off", "first"} => (gossipRuns = 0 /\ broadcast = {}))
    /\ [](gpc \in {"wait", "exited"} => gossipRuns >= 1)
    /\ [][published' # published =>
            /\ Len(published') = Len(published) + 1
            /\ SubSeq(published', 1, Len(published)) = published
            /\ published'[Len(published')] \in {"ok", "logged"}
            /\ ppc = "wait" /\ ppc' = "wait"
            /\ fatal' = fatal /\ gossipRuns' = gossipRuns]_vars
    /\ [][(gpc' = "exited" /\ gpc # "exited") =>
            (stopped /\ gpc = "wait")]_vars
    /\ [][(ppc' = "exited" /\ ppc # "exited") =>
            (stopped /\ ppc = "wait")]_vars
    /\ [][gpc = "exited" =>
            (gpc' = gpc /\ UNCHANGED <<gossipRuns, broadcast>>)]_vars
    /\ [][ppc = "exited" => (ppc' = ppc /\ published' = published)]_vars
    /\ (stopped /\ gpc # "off") ~> (gpc = "exited" \/ fatal # "")
    /\ (stopped /\ ppc # "off") ~> (ppc = "exited" \/ fatal # "")

C20_Witness ==
    /\ gpc = "exited" /\ ppc = "exited" /\ stopped /\ fatal = ""
    /\ gossipRuns = 2 /\ Cardinality(broadcast) = 2 /\ broadcast = stores
    /\ published = <<"logged", "ok">>

\* C21: whenever executeCmd's deferred sp.Finish has handed the joined
\* span to the recording callback, the response the callback appends to
\* was non-nil; in particular a request with joinable trace context that
\* RunTask refuses because the stopper is stopping returns the 'node
\* stopped' error, with no nil-response dereference.
C21_SpanCallbackHasResponse ==
    /\ (CountOf("finish", cmd.events) > 0) => cmd.finish = "recorded"
    /\ (cmd.result # "none" /\ cmd.trace = "ok" /\ cmd.stopping) =>
          /\ cmd.result = "stopped"
          /\ fatal # "nil BatchResponse"

====
